---- MODULE Spec2Model ----
(***************************************************************************)
(* State-machine model of the WeatherDashboard component                   *)
(* (src/unnamed/part_000): the fetch lifecycle of the weather session --    *)
(* committed city and units, the paired current-conditions / forecast      *)
(* requests, loading, error, lastUpdated, the periodic refresh effect and   *)
(* the user handlers.                                                       *)
(*                                                                          *)
(* Strings the code trims are sequences of one-character strings, so that   *)
(* String.prototype.trim is computed and not assumed.                       *)
(***************************************************************************)
EXTENDS Integers, Sequences, FiniteSets, TLC

(* ------------------------------ bounds --------------------------------- *)
\* number of fetch cycles (pairs of requests) a behaviour may issue
MaxCycles == 3

\* longest raw forecast series handed to the projector
MaxEntries == 10

(* ----------------------------- constants ------------------------------- *)
\* null of error (a message otherwise)
NULL == "null"
\* null of weatherData (a record of the two payloads otherwise)
NoData == [null |-> TRUE]
\* null of lastUpdated (an instant of the clock, 1 or later, otherwise)
NoInstant == 0

DEFAULT_CITY == <<"M", "a", "d", "r", "i", "d">>

Units == {"metric", "imperial"}

MSG_MISSING_KEY == "Falta la clave de API de OpenWeather."
MSG_INVALID_CITY == "Ingresa una ciudad valida para continuar."
MSG_CURRENT_FAILED == "No encontramos datos para esa ubicacion."
MSG_FORECAST_FAILED == "Ocurrio un problema al obtener el pronostico extendido."
\* messages of the exceptions the platform raises (fetchError.message)
MSG_NETWORK == "Failed to fetch"
MSG_PARSE == "Unexpected token in JSON"

\* what one of the two requests of a cycle can come back with:
\* a 2xx response with a JSON body, a non-2xx response, a rejected fetch,
\* a 2xx response whose body does not parse
Responses == {"ok", "notok", "neterr", "badjson"}

(* ------------------------------- strings -------------------------------- *)
\* every value the search box takes: the default city, the empty text, a
\* blank text, and a city typed with blanks around it
Inputs == {DEFAULT_CITY, <<>>, <<" ", " ">>, <<" ", "B", " ">>}

RECURSIVE TrimStart(_)
TrimStart(s) == IF s # <<>> /\ Head(s) = " " THEN TrimStart(Tail(s)) ELSE s

RECURSIVE TrimEnd(_)
TrimEnd(s) ==
  IF s # <<>> /\ s[Len(s)] = " " THEN TrimEnd(SubSeq(s, 1, Len(s) - 1)) ELSE s

Trim(s) == TrimEnd(TrimStart(s))

(* ---------------------------- values of the view ------------------------ *)
\* Values the formatters and the projector receive.  A number is kept in
\* thousandths (Num(21600) is 21.6); an object is a record of its properties,
\* an absent property is a field the record does not have.
Undefined == [t |-> "undefined"]
JsNull == [t |-> "null"]
NaN == [t |-> "NaN"]
Num(m) == [t |-> "number", v |-> m]
Str(x) == [t |-> "string", v |-> x]

NoCall == [fn |-> "none"]

IsObject(x) == "t" \notin DOMAIN x

\* typeof x
TypeOf(x) ==
  IF IsObject(x) \/ x = JsNull THEN "object"
  ELSE IF x = NaN THEN "number"
  ELSE x.t

\* !x
Falsy(x) ==
  \/ x \in {Undefined, JsNull, NaN}
  \/ (~IsObject(x) /\ x.t = "number" /\ x.v = 0)
  \/ (~IsObject(x) /\ x.t = "string" /\ x.v = "")

\* o?.f
Get(o, f) == IF IsObject(o) /\ f \in DOMAIN o THEN o[f] ELSE Undefined

\* a ?? b
Coalesce(a, b) == IF a \in {Undefined, JsNull} THEN b ELSE a

Abs(n) == IF n < 0 THEN 0 - n ELSE n

\* Math.round of m thousandths: the nearest integer, halves rounded up
MathRound(m) == (m + 500) \div 1000

\* x.toFixed(1) of m thousandths, as the text it prints
ToFixed1(m) ==
  LET tenths == (Abs(m) + 50) \div 100
  IN <<(IF m < 0 /\ tenths > 0 THEN "-" ELSE ""),
       ToString(tenths \div 10), ".", ToString(tenths % 10)>>

Placeholder == <<"--">>

TEMPERATURE_UNIT == [metric |-> "C", imperial |-> "F"]

WIND_UNIT == [metric |-> "m/s", imperial |-> "mph"]

(* ------------------------------ formatters ------------------------------ *)
formatTemperature(value, u) ==
  IF TypeOf(value) # "number" THEN Placeholder
  ELSE IF value = NaN THEN <<"NaN", "deg", TEMPERATURE_UNIT[u]>>
  ELSE <<ToString(MathRound(value.v)), "deg", TEMPERATURE_UNIT[u]>>

formatWindSpeed(value, u) ==
  IF TypeOf(value) # "number" THEN Placeholder
  ELSE IF value = NaN THEN <<"NaN", " ", WIND_UNIT[u]>>
  ELSE ToFixed1(value.v) \o <<" ", WIND_UNIT[u]>>

formatVisibility(value) ==
  IF TypeOf(value) # "number" THEN Placeholder
  ELSE IF value = NaN THEN <<"NaN", " km">>
  ELSE ToFixed1(value.v \div 1000) \o <<" km">>

\* two digits of a clock field
TwoDigits(n) == IF n < 10 THEN "0" \o ToString(n) ELSE ToString(n)

\* HH:MM of an instant given in seconds, rendered in UTC
ClockTime(seconds) ==
  <<TwoDigits((seconds \div 3600) % 24), ":", TwoDigits((seconds \div 60) % 60)>>

formatSunEvent(timestamp, timezoneOffset) ==
  IF Falsy(timestamp) THEN Placeholder
  ELSE IF IsObject(timestamp) \/ timestamp.t # "number" THEN <<"Invalid Date">>
  ELSE ClockTime((timestamp.v + timezoneOffset.v) \div 1000)

(* --------------------------- forecast projector ------------------------- *)
\* entries the projector keeps (forecast.list.slice(0, 8))
SLICE_END == 8

Min(a, b) == IF a < b THEN a ELSE b

\* weekday (0 = Sunday) and HH:MM of an instant in seconds, rendered in UTC
Label(seconds) ==
  [weekday |-> ((seconds \div 86400) + 4) % 7, time |-> ClockTime(seconds)]

\* the map callback: one point of one raw entry
ForecastPoint(item, timezoneOffset) ==
  [label |-> Label((item.dt.v + timezoneOffset.v) \div 1000),
   temperature |-> Coalesce(Get(Get(item, "main"), "temp"), JsNull),
   humidity |-> Coalesce(Get(Get(item, "main"), "humidity"), JsNull),
   precipitation |-> MathRound(Coalesce(Get(item, "pop"), Num(0)).v * 100)]

\* a projector that maps the whole list
buildForecastPointsNoSlice(forecast) ==
  IF ~(IsObject(forecast) /\ "list" \in DOMAIN forecast) THEN <<>>
  ELSE IF Len(forecast.list) = 0 THEN <<>>
  ELSE LET timezoneOffset == Coalesce(Get(Get(forecast, "city"), "timezone"), Num(0))
       IN [i \in 1..Len(forecast.list) |->
             ForecastPoint(forecast.list[i], timezoneOffset)]

buildForecastPoints(forecast) ==
  IF ~(IsObject(forecast) /\ "list" \in DOMAIN forecast) THEN <<>>
  ELSE IF Len(forecast.list) = 0 THEN <<>>
  ELSE LET timezoneOffset == Coalesce(Get(Get(forecast, "city"), "timezone"), Num(0))
       IN [i \in 1..Min(SLICE_END, Len(forecast.list)) |->
             ForecastPoint(forecast.list[i], timezoneOffset)]

(* ------------------------------ derived view ---------------------------- *)
\* the text of a number in a template literal
NumText(m) ==
  IF m % 1000 = 0 THEN ToString(m \div 1000)
  ELSE ToString(m \div 1000) \o "." \o ToString(m % 1000)

\* `${x ?? '--'}` followed by a suffix
OrPlaceholder(x, suffix) ==
  IF x \in {Undefined, JsNull} THEN <<"--", suffix>>
  ELSE IF ~IsObject(x) /\ x.t = "number" THEN <<NumText(x.v), suffix>>
  ELSE <<"?", suffix>>

\* forecastPoints = useMemo(buildForecastPoints(weatherData?.forecast))
ForecastPointsOf(data) == buildForecastPoints(Get(data, "forecast"))

MetricEntries(current, u, points) ==
  <<[label |-> "Sensacion termica",
     value |-> formatTemperature(Get(Get(current, "main"), "feels_like"), u)],
    IF points # <<>>
    THEN [label |-> "Humedad relativa",
          value |-> OrPlaceholder(Get(Get(current, "main"), "humidity"), "%"),
          helper |-> <<"Prox. lluvia: ", ToString(points[1].precipitation), "%">>]
    ELSE [label |-> "Humedad relativa",
          value |-> OrPlaceholder(Get(Get(current, "main"), "humidity"), "%")],
    [label |-> "Viento",
     value |-> formatWindSpeed(Get(Get(current, "wind"), "speed"), u)],
    [label |-> "Presion",
     value |-> OrPlaceholder(Get(Get(current, "main"), "pressure"), " hPa")],
    [label |-> "Visibilidad",
     value |-> formatVisibility(Get(current, "visibility"))],
    [label |-> "Nubosidad",
     value |-> OrPlaceholder(Get(Get(current, "clouds"), "all"), "%")],
    [label |-> "Salida del sol",
     value |-> formatSunEvent(Get(Get(current, "sys"), "sunrise"),
                              Coalesce(Get(current, "timezone"), Num(0)))],
    [label |-> "Puesta del sol",
     value |-> formatSunEvent(Get(Get(current, "sys"), "sunset"),
                              Coalesce(Get(current, "timezone"), Num(0)))]>>

\* metrics guarded on weatherData instead of weatherData.current
MetricsOfAnyData(data, u, points) ==
  IF data = NoData THEN <<>> ELSE MetricEntries(Get(data, "current"), u, points)

\* metrics = useMemo(...)
MetricsOf(data, u, points) ==
  IF Falsy(Get(data, "current")) THEN <<>>
  ELSE MetricEntries(Get(data, "current"), u, points)

(* -------------------------------- state --------------------------------- *)
VARIABLES
  apiKey,       \* TRUE iff VITE_OPENWEATHER_API_KEY is configured
  city,         \* committed city
  searchTerm,   \* text of the search box
  units,        \* committed unit system
  weatherData,  \* NoData or [current, forecast]
  loading,
  error,        \* NULL or a message
  lastUpdated,  \* NoInstant or the instant of the last successful settlement
  cycles,       \* every cycle issued so far, in issue order
  inflight,     \* indexes in cycles whose Promise has not settled
  recovering,   \* indexes of the cycles issued while an error was displayed
  settled,      \* settlements so far, in settlement order
  now,          \* the clock read by new Date() at a settlement
  phase,        \* "created", "mounted", "unmounted"
  timer,        \* TRUE iff the interval of the refresh effect is armed
  call          \* the latest application of a pure function of the view

vars == <<apiKey, city, searchTerm, units, weatherData, loading, error,
          lastUpdated, cycles, inflight, recovering, settled, now, phase, timer,
          call>>

\* the state of the session
session == <<apiKey, city, searchTerm, units, weatherData, loading, error,
             lastUpdated, cycles, inflight, recovering, settled, now, phase, timer>>

\* the part of the state the component's functions read and write
St == [city |-> city, units |-> units, weatherData |-> weatherData,
       loading |-> loading, error |-> error, lastUpdated |-> lastUpdated,
       cycles |-> cycles, inflight |-> inflight, recovering |-> recovering]

Commit(s) ==
  /\ city' = s.city
  /\ units' = s.units
  /\ weatherData' = s.weatherData
  /\ loading' = s.loading
  /\ error' = s.error
  /\ lastUpdated' = s.lastUpdated
  /\ cycles' = s.cycles
  /\ inflight' = s.inflight
  /\ recovering' = s.recovering

Init ==
  /\ apiKey \in BOOLEAN
  /\ city = DEFAULT_CITY
  /\ searchTerm = DEFAULT_CITY
  /\ units = "metric"
  /\ weatherData = NoData
  /\ loading = FALSE
  /\ error = NULL
  /\ lastUpdated = NoInstant
  /\ cycles = <<>>
  /\ inflight = {}
  /\ recovering = {}
  /\ settled = <<>>
  /\ now = 0
  /\ phase = "created"
  /\ timer = FALSE
  /\ call = NoCall

(* ----------------------------- fetchWeather ----------------------------- *)
\* the two requests of a cycle, built from the same URLSearchParams
Requests(c) ==
  {[endpoint |-> e, q |-> c.q, units |-> c.units] : e \in {"weather", "forecast"}}

\* try block up to the first await: loading, error, the two fetches
StartCycle(s, trimmedCity, overrideUnits) ==
  [s EXCEPT !.loading = TRUE,
            !.error = NULL,
            !.cycles = Append(@, [q |-> trimmedCity, units |-> overrideUnits]),
            !.inflight = @ \cup {Len(s.cycles) + 1},
            !.recovering = IF s.error = NULL THEN @ ELSE @ \cup {Len(s.cycles) + 1}]

\* fetchWeather with the two precondition checks in the other order
fetchWeatherCityFirst(s, overrideCity, overrideUnits) ==
  LET trimmedCity == Trim(overrideCity)
  IN IF trimmedCity = <<>>
     THEN [s EXCEPT !.error = MSG_INVALID_CITY]
     ELSE IF ~apiKey
          THEN [s EXCEPT !.error = MSG_MISSING_KEY]
          ELSE StartCycle(s, trimmedCity, overrideUnits)

\* fetchWeather without the credential check
fetchWeatherNoKeyCheck(s, overrideCity, overrideUnits) ==
  LET trimmedCity == Trim(overrideCity)
  IN IF trimmedCity = <<>>
     THEN [s EXCEPT !.error = MSG_INVALID_CITY]
     ELSE StartCycle(s, trimmedCity, overrideUnits)

\* fetchWeather that raises loading before it checks its preconditions
fetchWeatherLoadingFirst(s, overrideCity, overrideUnits) ==
  IF ~apiKey
  THEN [s EXCEPT !.loading = TRUE, !.error = MSG_MISSING_KEY]
  ELSE LET trimmedCity == Trim(overrideCity)
       IN IF trimmedCity = <<>>
          THEN [s EXCEPT !.loading = TRUE, !.error = MSG_INVALID_CITY]
          ELSE StartCycle(s, trimmedCity, overrideUnits)

\* the synchronous part of fetchWeather(overrideCity, overrideUnits)
fetchWeather(s, overrideCity, overrideUnits) ==
  IF ~apiKey
  THEN [s EXCEPT !.error = MSG_MISSING_KEY]
  ELSE LET trimmedCity == Trim(overrideCity)
       IN IF trimmedCity = <<>>
          THEN [s EXCEPT !.error = MSG_INVALID_CITY]
          ELSE StartCycle(s, trimmedCity, overrideUnits)

\* the response checks in the opposite order: forecast before current
CycleErrorForecastFirst(cur, fc) ==
  IF cur = "neterr" \/ fc = "neterr" THEN MSG_NETWORK
  ELSE IF fc = "notok" THEN MSG_FORECAST_FAILED
  ELSE IF cur = "notok" THEN MSG_CURRENT_FAILED
  ELSE IF cur = "badjson" \/ fc = "badjson" THEN MSG_PARSE
  ELSE NULL

\* the exception the awaits of a cycle raise, NULL when there is none
CycleError(cur, fc) ==
  IF cur = "neterr" \/ fc = "neterr" THEN MSG_NETWORK
  ELSE IF cur = "notok" THEN MSG_CURRENT_FAILED
  ELSE IF fc = "notok" THEN MSG_FORECAST_FAILED
  ELSE IF cur = "badjson" \/ fc = "badjson" THEN MSG_PARSE
  ELSE NULL

\* the bodies the two endpoints return for cycle id
Payload(s, id) ==
  [current |-> [cycle |-> id, name |-> s.cycles[id].q, units |-> s.cycles[id].units],
   forecast |-> [cycle |-> id, name |-> s.cycles[id].q, units |-> s.cycles[id].units]]

\* the rest of the try block after both awaits
TrySuccess(s, id, t) ==
  [s EXCEPT !.weatherData = Payload(s, id), !.lastUpdated = t]

\* a catch block that leaves the displayed data in place
CatchBlockKeepsData(s, message) == [s EXCEPT !.error = message]

\* a catch block that also resets the timestamp
CatchBlockClearsStamp(s, message) ==
  [s EXCEPT !.weatherData = NoData, !.error = message, !.lastUpdated = NoInstant]

CatchBlock(s, message) ==
  [s EXCEPT !.weatherData = NoData, !.error = message]

\* no finally block: loading is left as it was
FinallyBlockKeepsLoading(s) == s

FinallyBlock(s) == [s EXCEPT !.loading = FALSE]

\* fetchWeather from its first await to its end, for cycle id
Resume(s, id, cur, fc, t) ==
  LET message == CycleError(cur, fc)
      s1 == [s EXCEPT !.inflight = @ \ {id}]
  IN FinallyBlock(IF message = NULL THEN TrySuccess(s1, id, t)
                  ELSE CatchBlock(s1, message))

(* ------------------------- the refresh effect --------------------------- *)
\* body of the effect: fetchWeather() with the committed values
RunEffect(s) == fetchWeather(s, s.city, s.units)

\* after a handler: fetchWeather is a new callback iff city or units changed
\* (its dependency list), and then the effect is cleaned up and run again
AfterRender(s) ==
  IF s.city # city \/ s.units # units THEN RunEffect(s) ELSE s

\* cycles a handler may issue: its own and the one of the effect
Room(n) == Len(cycles) + n <= MaxCycles

(* ------------------------------- actions -------------------------------- *)
Mount ==
  /\ phase = "created"
  /\ Commit(RunEffect(St))
  /\ phase' = "mounted"
  /\ timer' = TRUE
  /\ UNCHANGED <<apiKey, searchTerm, settled, now, call>>

Tick ==
  /\ timer
  /\ Room(1)
  /\ Commit(fetchWeather(St, city, units))
  /\ UNCHANGED <<apiKey, searchTerm, settled, now, phase, timer, call>>

ChangeSearchTerm(value) ==
  /\ phase = "mounted"
  /\ value # searchTerm
  /\ searchTerm' = value
  /\ UNCHANGED <<apiKey, city, units, weatherData, loading, error, lastUpdated,
                 cycles, inflight, recovering, settled, now, phase, timer, call>>

\* a submit whose empty-input branch also drops the displayed data
handleSubmitClearsOnEmpty ==
  /\ phase = "mounted"
  /\ ~loading
  /\ LET trimmed == Trim(searchTerm)
     IN IF trimmed = <<>>
        THEN Commit([St EXCEPT !.error = MSG_INVALID_CITY, !.weatherData = NoData])
        ELSE /\ Room(2)
             /\ Commit(AfterRender(fetchWeather([St EXCEPT !.city = trimmed],
                                                trimmed, units)))
  /\ UNCHANGED <<apiKey, searchTerm, settled, now, phase, timer, call>>

handleSubmit ==
  /\ phase = "mounted"
  /\ ~loading
  /\ LET trimmed == Trim(searchTerm)
     IN IF trimmed = <<>>
        THEN Commit([St EXCEPT !.error = MSG_INVALID_CITY])
        ELSE /\ Room(2)
             /\ Commit(AfterRender(fetchWeather([St EXCEPT !.city = trimmed],
                                                trimmed, units)))
  /\ UNCHANGED <<apiKey, searchTerm, settled, now, phase, timer, call>>

\* a unit change that fetches with the units of the render it ran in
handleUnitChangeStale(newUnits) ==
  /\ phase = "mounted"
  /\ ~loading
  /\ units # newUnits
  /\ Room(2)
  /\ Commit(AfterRender(fetchWeather([St EXCEPT !.units = newUnits],
                                     city, units)))
  /\ UNCHANGED <<apiKey, searchTerm, settled, now, phase, timer, call>>

handleUnitChange(newUnits) ==
  /\ phase = "mounted"
  /\ ~loading
  /\ units # newUnits
  /\ Room(2)
  /\ Commit(AfterRender(fetchWeather([St EXCEPT !.units = newUnits],
                                     city, newUnits)))
  /\ UNCHANGED <<apiKey, searchTerm, settled, now, phase, timer, call>>

\* a refresh button that is not disabled while loading
handleRefreshUngated ==
  /\ phase = "mounted"
  /\ Room(1)
  /\ Commit(fetchWeather(St, city, units))
  /\ UNCHANGED <<apiKey, searchTerm, settled, now, phase, timer, call>>

handleRefresh ==
  /\ phase = "mounted"
  /\ ~loading
  /\ Room(1)
  /\ Commit(fetchWeather(St, city, units))
  /\ UNCHANGED <<apiKey, searchTerm, settled, now, phase, timer, call>>

\* the Promise of cycle id settles: both responses are in, or one fetch failed
Settle(id, cur, fc) ==
  /\ id \in inflight
  /\ Commit(Resume(St, id, cur, fc, now + 1))
  /\ now' = now + 1
  /\ settled' = Append(settled, [id |-> id, ok |-> CycleError(cur, fc) = NULL,
                                 at |-> now + 1])
  /\ UNCHANGED <<apiKey, searchTerm, phase, timer, call>>

\* an effect without cleanup: the interval outlives the session
UnmountKeepsTimer ==
  /\ phase = "mounted"
  /\ phase' = "unmounted"
  /\ UNCHANGED <<apiKey, city, searchTerm, units, weatherData, loading, error,
                 lastUpdated, cycles, inflight, recovering, settled, now, timer, call>>

\* the session ends: the effect's cleanup clears the interval
Unmount ==
  /\ phase = "mounted"
  /\ phase' = "unmounted"
  /\ timer' = FALSE
  /\ UNCHANGED <<apiKey, city, searchTerm, units, weatherData, loading, error,
                 lastUpdated, cycles, inflight, recovering, settled, now, call>>

\* fetchWeather invoked directly, outside the handlers and the effect
CallFetchWeather(overrideCity, overrideUnits) ==
  /\ phase = "mounted"
  /\ Room(1)
  /\ Commit(fetchWeather(St, overrideCity, overrideUnits))
  /\ UNCHANGED <<apiKey, searchTerm, settled, now, phase, timer, call>>

Next ==
  \/ Mount
  \/ Tick
  \/ \E value \in Inputs : ChangeSearchTerm(value)
  \/ handleSubmit
  \/ \E newUnits \in Units : handleUnitChange(newUnits)
  \/ handleRefresh
  \/ \E id \in inflight, cur \in Responses, fc \in Responses : Settle(id, cur, fc)
  \/ Unmount

Spec == Init /\ [][Next]_vars

\* every request is eventually answered or fails
Responsive ==
  \A id \in 1..MaxCycles :
    WF_vars(\E cur \in Responses, fc \in Responses : Settle(id, cur, fc))

FairSpec == Spec /\ Responsive

\* the texts that are empty after trimming
BlankInputs == {value \in Inputs : Trim(value) = <<>>}

\* the session with fetchWeather also invoked directly on a blank city
NextCall ==
  \/ Next
  \/ \E overrideCity \in BlankInputs, overrideUnits \in Units :
        CallFetchWeather(overrideCity, overrideUnits)

SpecCall == Init /\ [][NextCall]_vars

(* ------------------- the pure functions, applied to inputs -------------- *)
\* values a numeric field of a payload, or a caller, can hand to a formatter
FormatterInputs ==
  {Undefined, JsNull, NaN, Str(""), Str("21.6"),
   Num(0), Num(21600), Num(21500), Num(21499), Num(-2500), Num(3460), Num(3450),
   Num(10000000), Num(9949000)}

\* sunrise / sunset fields and UTC offsets
SunInputs == {Undefined, JsNull, NaN, Num(0), Str(""), Str("x"),
              Num(28800000), Num(86340000)}

OffsetInputs == {Num(0), Num(7200000), Num(-18000000)}

\* the i-th entry of a raw series; its shape (full, bare, partial) rotates
\* with variant so that every position sees every shape
RawEntry(i, variant) ==
  LET dt == Num((259200 + i * 10800) * 1000)
      shape == (i + variant) % 4
  IN IF shape = 0
     THEN [dt |-> dt, pop |-> Num(355),
           main |-> [temp |-> Num(i * 1000 + 600), humidity |-> Num(50000 + i * 1000)]]
     ELSE IF shape = 1 THEN [dt |-> dt]
     ELSE IF shape = 2
     THEN [dt |-> dt, pop |-> Num(1000), main |-> [temp |-> Num(0 - i * 1000)]]
     ELSE [dt |-> dt, pop |-> Num(4), main |-> [humidity |-> Num(i * 1000)]]

RawList(n, variant) == [i \in 1..n |-> RawEntry(i, variant)]

\* what weatherData.forecast can be: absent, a body without a series, a
\* series of 0..MaxEntries entries with or without the city's UTC offset
ForecastInputs ==
  {Undefined, JsNull, [cod |-> Str("200")]}
  \cup {[list |-> RawList(n, variant)] : n \in 0..MaxEntries, variant \in 0..3}
  \cup {[list |-> RawList(n, variant), city |-> [timezone |-> Num(7200000)]] :
          n \in 0..MaxEntries, variant \in 0..3}

\* what weatherData.current can be
CurrentInputs ==
  {JsNull,
   [cycle |-> 1, name |-> DEFAULT_CITY, units |-> "metric"],
   [name |-> DEFAULT_CITY, timezone |-> Num(3600000), visibility |-> Num(10000000),
    main |-> [feels_like |-> Num(21600), humidity |-> Num(65000),
              pressure |-> Num(1013000)],
    wind |-> [speed |-> Num(3460)], clouds |-> [all |-> Num(40000)],
    sys |-> [sunrise |-> Num(28800000), sunset |-> Num(72000000)]]}

\* the forecasts a render is given: absent, empty, one entry, the longest
RenderForecasts ==
  {Undefined, JsNull}
  \cup {[list |-> RawList(n, 0), city |-> [timezone |-> Num(7200000)]] :
          n \in {0, 1, MaxEntries}}

ViewInputs ==
  {NoData} \cup {[current |-> c, forecast |-> f] :
                   c \in CurrentInputs, f \in RenderForecasts}

ApplyFormatTemperature(value, u) ==
  /\ call' = [fn |-> "formatTemperature", value |-> value, units |-> u,
              result |-> formatTemperature(value, u)]
  /\ UNCHANGED session

ApplyFormatWindSpeed(value, u) ==
  /\ call' = [fn |-> "formatWindSpeed", value |-> value, units |-> u,
              result |-> formatWindSpeed(value, u)]
  /\ UNCHANGED session

ApplyFormatVisibility(value) ==
  /\ call' = [fn |-> "formatVisibility", value |-> value,
              result |-> formatVisibility(value)]
  /\ UNCHANGED session

ApplyFormatSunEvent(timestamp, timezoneOffset) ==
  /\ call' = [fn |-> "formatSunEvent", value |-> timestamp,
              offset |-> timezoneOffset,
              result |-> formatSunEvent(timestamp, timezoneOffset)]
  /\ UNCHANGED session

ApplyBuildForecastPoints(forecast) ==
  /\ call' = [fn |-> "buildForecastPoints", forecast |-> forecast,
              result |-> buildForecastPoints(forecast)]
  /\ UNCHANGED session

\* a render: the two memoized values of the given weatherData and units
Render(data, u) ==
  /\ call' = [fn |-> "render", weatherData |-> data, units |-> u,
              forecastPoints |-> ForecastPointsOf(data),
              metrics |-> MetricsOf(data, u, ForecastPointsOf(data))]
  /\ UNCHANGED session

\* the response checks of a cycle and the message its catch block sets
ApplyResponseChecks(cur, fc) ==
  /\ call' = [fn |-> "responseChecks", current |-> cur, forecast |-> fc,
              result |-> IF CycleError(cur, fc) = NULL THEN NULL
                         ELSE CatchBlock(St, CycleError(cur, fc)).error]
  /\ UNCHANGED session

NextView ==
  \/ \E value \in FormatterInputs, u \in Units : ApplyFormatTemperature(value, u)
  \/ \E value \in FormatterInputs, u \in Units : ApplyFormatWindSpeed(value, u)
  \/ \E value \in FormatterInputs : ApplyFormatVisibility(value)
  \/ \E timestamp \in SunInputs, timezoneOffset \in OffsetInputs :
        ApplyFormatSunEvent(timestamp, timezoneOffset)
  \/ \E forecast \in ForecastInputs : ApplyBuildForecastPoints(forecast)
  \/ \E data \in ViewInputs, u \in Units : Render(data, u)
  \/ \E cur \in Responses, fc \in Responses : ApplyResponseChecks(cur, fc)

SpecView == Init /\ [][NextView]_vars

(* ------------------------- helpers of the claims ------------------------ *)
Last(seq) == seq[Len(seq)]

SettledIds == {settled[i].id : i \in 1..Len(settled)}

SettlementOf(id) == settled[CHOOSE i \in 1..Len(settled) : settled[i].id = id]

Max(S) == CHOOSE x \in S : \A y \in S : y <= x

\* a handler that the code lets issue a fetch: a submit of a non-empty city
SubmitNonEmpty == Trim(searchTerm) # <<>> /\ handleSubmit

AnyUnitChange == \E newUnits \in Units : handleUnitChange(newUnits)

\* a step in which fetchWeather is called
Trigger == Mount \/ Tick \/ handleRefresh \/ SubmitNonEmpty \/ AnyUnitChange

(* -------------------------------- C1 ------------------------------------ *)
\* C1: for cycles A, B issued in that order where A settles after B, the
\* committed state after both have settled is the result of B, never A's.
\* Stated on the state right after A's settlement, B being the most recently
\* issued of the settled cycles: the data and lastUpdated are those B's
\* settlement committed.
C1_LastIssuedWins ==
  (settled # <<>> /\ Max(SettledIds) > Last(settled).id) =>
    LET b == SettlementOf(Max(SettledIds))
    IN IF b.ok
       THEN weatherData = Payload(St, b.id) /\ lastUpdated = b.at
       ELSE /\ weatherData = NoData
            /\ lastUpdated # Last(settled).at
            /\ (b.id = Len(cycles) => error # NULL)

(* -------------------------------- C2 ------------------------------------ *)
\* C2: in every reachable state at most one fetch cycle is in flight.
C2_SingleFlight == Cardinality(inflight) <= 1

(* -------------------------------- C3 ------------------------------------ *)
\* C3: a submit of a non-empty city, or a unit change, issues exactly one
\* cycle, parameterized with the submitted trimmed city and the units in force.
C3_OneCyclePerTrigger ==
  [][(apiKey /\ (SubmitNonEmpty \/ AnyUnitChange)) =>
       /\ Len(cycles') = Len(cycles) + 1
       /\ Last(cycles').q = city'
       /\ Last(cycles').units = units']_vars

(* -------------------------------- C4 ------------------------------------ *)
\* C4: once a cycle has settled, error and currentConditions are never both
\* non-null.
C4_ErrorExcludesData ==
  settled # <<>> => ~(error # NULL /\ weatherData # NoData)

(* -------------------------------- C5 ------------------------------------ *)
\* C5: right after the settlement of a cycle whose two requests succeeded,
\* the data are that cycle's payloads, error is null, loading is false and
\* lastUpdated is the settlement instant.
C5_SuccessCommits ==
  [][\A id \in inflight :
       Settle(id, "ok", "ok") =>
         /\ weatherData' = Payload(St, id)
         /\ error' = NULL
         /\ loading' = FALSE
         /\ lastUpdated' = now' /\ now' > now]_vars

(* -------------------------------- C6 ------------------------------------ *)
\* C6: right after the settlement of a cycle in which either request failed
\* (non-success status, network failure, parsing failure), the weather data
\* (current conditions and forecast) are null, error is that failure's
\* message, and lastUpdated is what it was.
C6_FailureClears ==
  [][\A id \in inflight, cur \in Responses, fc \in Responses :
       (<<cur, fc>> # <<"ok", "ok">> /\ Settle(id, cur, fc)) =>
         /\ weatherData' = NoData
         /\ error' \in {MSG_CURRENT_FAILED, MSG_FORECAST_FAILED, MSG_NETWORK, MSG_PARSE}
         /\ lastUpdated' = lastUpdated]_vars

\* a failed cycle has just settled over data an earlier cycle had displayed
C6_Witness ==
  /\ Len(settled) >= 2
  /\ settled[1].ok
  /\ ~Last(settled).ok
  /\ weatherData = NoData
  /\ error = MSG_FORECAST_FAILED
  /\ lastUpdated = settled[1].at

(* -------------------------------- C7 ------------------------------------ *)
\* C7: lastUpdated is null until the first fully successful settlement, and
\* the only step that changes it is the settlement of a cycle whose two
\* requests both succeeded.
C7_LastUpdatedFrame ==
  /\ []((\A i \in 1..Len(settled) : ~settled[i].ok) => lastUpdated = NoInstant)
  /\ [][lastUpdated' # lastUpdated =>
          \E id \in inflight : Settle(id, "ok", "ok")]_vars

\* lastUpdated survived a unit change, a failed settlement and the session end
C7_Witness ==
  /\ lastUpdated # NoInstant
  /\ units = "imperial"
  /\ ~Last(settled).ok
  /\ lastUpdated < Last(settled).at
  /\ phase = "unmounted"

(* -------------------------------- C8 ------------------------------------ *)
\* C8 as stated: fetchWeather with a city that is empty after trimming issues
\* no request and sets error to the invalid-city message, in every state.
C8_EmptyCityAlwaysInvalid ==
  [][\A overrideCity \in Inputs, overrideUnits \in Units :
       (Trim(overrideCity) = <<>> /\ CallFetchWeather(overrideCity, overrideUnits)) =>
         /\ cycles' = cycles /\ inflight' = inflight
         /\ error' = MSG_INVALID_CITY]_vars

\* C8 amended: fetchWeather with a city that is empty after trimming issues no
\* request in any state; it sets error to the invalid-city message when the
\* credential is configured and to the missing-credential message when not.
C8_EmptyCityNoRequest ==
  [][\A overrideCity \in Inputs, overrideUnits \in Units :
       (Trim(overrideCity) = <<>> /\ CallFetchWeather(overrideCity, overrideUnits)) =>
         /\ cycles' = cycles /\ inflight' = inflight
         /\ loading' = loading /\ weatherData' = weatherData
         /\ error' = IF apiKey THEN MSG_INVALID_CITY ELSE MSG_MISSING_KEY]_vars

\* fetchWeather was called with a blank city while a cycle was in flight
C8_Witness ==
  /\ apiKey
  /\ error = MSG_INVALID_CITY
  /\ inflight # {}
  /\ loading

(* -------------------------------- C9 ------------------------------------ *)
\* C9: without the credential no cycle is ever issued, loading is never true,
\* no data and no lastUpdated appear, and every step that calls fetchWeather
\* sets error to the missing-credential message.
C9_NoCredentialNoRequest ==
  /\ [](~apiKey => /\ cycles = <<>> /\ inflight = {}
                   /\ ~loading
                   /\ weatherData = NoData /\ lastUpdated = NoInstant)
  /\ [][(~apiKey /\ Trigger) =>
          /\ error' = MSG_MISSING_KEY
          /\ UNCHANGED <<loading, weatherData, lastUpdated, cycles, inflight>>]_vars

\* the credential is missing and a unit change has called fetchWeather
C9_Witness ==
  /\ ~apiKey
  /\ units = "imperial"
  /\ error = MSG_MISSING_KEY

(* -------------------------------- C10 ----------------------------------- *)
\* C10: a cycle sets loading and clears error when it starts; every
\* settlement (success, non-success response, exception) clears loading;
\* every issued cycle eventually settles; and once no further cycle is
\* issued loading eventually becomes and stays false.
C10_LoadingCleared ==
  /\ [][Len(cycles') > Len(cycles) => (loading' /\ error' = NULL)]_vars
  /\ [][Len(settled') > Len(settled) => ~loading']_vars
  /\ \A id \in 1..MaxCycles : <>[](id \notin inflight)
  /\ (<>[][cycles' = cycles]_vars) => <>[](~loading)

\* a cycle that ended in an exception has cleared loading
C10_Witness ==
  /\ settled # <<>>
  /\ ~Last(settled).ok
  /\ error \in {MSG_NETWORK, MSG_PARSE}
  /\ inflight = {}
  /\ ~loading

(* -------------------------------- C11 ----------------------------------- *)
\* C11: a submit whose input is empty after trimming sets error to the
\* invalid-city message, issues no cycle, and leaves the committed city, the
\* units, the weather data, loading and lastUpdated as they were.
C11_EmptySubmit ==
  [][(Trim(searchTerm) = <<>> /\ handleSubmit) =>
       /\ error' = MSG_INVALID_CITY
       /\ UNCHANGED <<city, units, weatherData, loading, lastUpdated,
                      cycles, inflight>>]_vars

\* an empty submit over displayed data: the message is up, the data still there
C11_Witness ==
  /\ apiKey
  /\ Trim(searchTerm) = <<>>
  /\ error = MSG_INVALID_CITY
  /\ weatherData # NoData
  /\ lastUpdated # NoInstant

(* -------------------------------- C12 ----------------------------------- *)
\* the cycles a step has issued
NewCycles == {cycles'[i] : i \in (Len(cycles) + 1)..Len(cycles')}

Fresh ==
  /\ city = DEFAULT_CITY /\ units = "metric"
  /\ weatherData = NoData /\ ~loading /\ error = NULL
  /\ lastUpdated = NoInstant /\ cycles = <<>>

\* the timer runs exactly while the session is alive, and once the session
\* has ended no step issues a cycle
TimerLifecycle ==
  /\ [](timer <=> phase = "mounted")
  /\ [][phase = "unmounted" => (cycles' = cycles /\ phase' = "unmounted")]_vars

\* C13 as stated: the session starts fresh and immediately issues one cycle,
\* ticks issue further cycles while it lives, none after it has ended.
C13_StartIssuesCycle ==
  /\ [](phase = "created" => Fresh)
  /\ [][Mount => Len(cycles') = 1]_vars
  /\ [][(Tick /\ phase = "mounted") => Len(cycles') = Len(cycles) + 1]_vars
  /\ TimerLifecycle

\* C13 amended: the first cycle and the cycles of the ticks are issued when
\* the credential is configured (without it fetchWeather is called and
\* issues nothing); the rest as stated.
C13_SessionLifecycle ==
  /\ [](phase = "created" => Fresh)
  /\ [][Mount => /\ timer'
                 /\ Len(cycles') = IF apiKey THEN 1 ELSE 0
                 /\ \A c \in NewCycles : c = [q |-> DEFAULT_CITY, units |-> "metric"]]_vars
  /\ [][(Tick /\ phase = "mounted") =>
          Len(cycles') = Len(cycles) + IF apiKey THEN 1 ELSE 0]_vars
  /\ TimerLifecycle

\* the session has ended with a cycle of a tick still in flight and room for more
C13_Witness ==
  /\ phase = "unmounted"
  /\ ~timer
  /\ Len(cycles) = 2
  /\ inflight # {}

(* -------------------------------- C14 ----------------------------------- *)
\* C14: no error is fatal to the session: while an error is displayed a
\* trigger remains possible, and when a cycle issued from such a state has
\* both requests succeed, right after its settlement error is null and the
\* weather data are present.
C14_ErrorsNotFatal ==
  /\ []((error # NULL /\ phase = "mounted" /\ Room(1)) => ENABLED Tick)
  /\ [][\A id \in inflight \cap recovering :
          Settle(id, "ok", "ok") => (error' = NULL /\ weatherData' # NoData)]_vars

(* -------------------------------- C15 ----------------------------------- *)
\* the raw series of a forecast body, empty when the body or the series is absent
SeriesOf(forecast) ==
  IF IsObject(forecast) /\ "list" \in DOMAIN forecast THEN forecast.list ELSE <<>>

\* the UTC offset of a forecast body, in thousandths of a second
OffsetOf(forecast) ==
  IF "city" \in DOMAIN forecast THEN forecast.city.timezone.v ELSE 0

\* C15: the forecast projector returns the empty sequence for an absent or
\* empty series and otherwise min(8, n) points, the i-th one made of the i-th
\* raw entry: temperature and humidity passed through (null when absent),
\* precipitation = round(pop * 100) with pop defaulting to 0, within 0..100.
C15_ForecastProjector ==
  call.fn = "buildForecastPoints" =>
    LET raw == SeriesOf(call.forecast)
        points == call.result
    IN /\ Len(raw) = 0 => points = <<>>
       /\ Len(points) = IF Len(raw) < 8 THEN Len(raw) ELSE 8
       /\ \A i \in 1..Len(points) :
            LET item == raw[i]
            IN /\ points[i].label =
                    Label((item.dt.v + OffsetOf(call.forecast)) \div 1000)
               /\ points[i].temperature =
                    IF "main" \in DOMAIN item /\ "temp" \in DOMAIN item.main
                    THEN item.main.temp ELSE JsNull
               /\ points[i].humidity =
                    IF "main" \in DOMAIN item /\ "humidity" \in DOMAIN item.main
                    THEN item.main.humidity ELSE JsNull
               /\ points[i].precipitation =
                    IF "pop" \in DOMAIN item
                    THEN (item.pop.v * 100 + 500) \div 1000 ELSE 0
               /\ points[i].precipitation \in 0..100

\* the projector was given more than 8 entries and returned 8 points
C15_Witness ==
  /\ call.fn = "buildForecastPoints"
  /\ Len(SeriesOf(call.forecast)) > 8
  /\ Len(call.result) = 8
  /\ \E i \in 1..8 : call.result[i].precipitation = 36

(* -------------------------------- C16 ----------------------------------- *)
\* labels of the metric cards, in the order of the list
MetricLabels ==
  <<"Sensacion termica", "Humedad relativa", "Viento", "Presion",
    "Visibilidad", "Nubosidad", "Salida del sol", "Puesta del sol">>

\* C16: the derived view is determined by the committed weatherData and
\* units: metrics is empty when the current conditions are null and is the 8
\* fixed cards in their fixed order otherwise; forecastPoints has at most 8
\* entries and is empty when the forecast series is null.
C16_DerivedView ==
  call.fn = "render" =>
    LET data == call.weatherData
        noCurrent == data = NoData \/ data.current = JsNull
        noForecast == data = NoData \/ data.forecast \in {JsNull, Undefined}
    IN /\ noCurrent => call.metrics = <<>>
       /\ ~noCurrent =>
            /\ Len(call.metrics) = 8
            /\ \A i \in 1..8 : call.metrics[i].label = MetricLabels[i]
       /\ Len(call.forecastPoints) <= 8
       /\ noForecast => call.forecastPoints = <<>>

\* a render of a full payload: 8 cards and 8 forecast points
C16_Witness ==
  /\ call.fn = "render"
  /\ call.weatherData # NoData
  /\ Len(call.metrics) = 8
  /\ Len(call.forecastPoints) = 8

\* a render of a payload whose current conditions are null
C16_NullCurrentRendered ==
  /\ call.fn = "render"
  /\ call.weatherData # NoData
  /\ call.weatherData.current = JsNull
  /\ call.metrics = <<>>

(* -------------------------------- C17 ----------------------------------- *)
Formatters == {"formatTemperature", "formatWindSpeed", "formatVisibility"}

\* a number that is not NaN
ValidNumber(value) == TypeOf(value) = "number" /\ value # NaN

\* C17: formatTemperature, formatWindSpeed and formatVisibility return the
\* placeholder for every value that is absent or not a valid number
\* (undefined, null, a string, NaN) and the rounded value with the unit label
\* of the unit system for every valid number; formatSunEvent returns the
\* placeholder for every falsy timestamp.
C17_FormattersTotal ==
  /\ (call.fn \in Formatters /\ ~ValidNumber(call.value)) =>
        call.result = Placeholder
  /\ (call.fn = "formatTemperature" /\ ValidNumber(call.value)) =>
        call.result = <<ToString((call.value.v + 500) \div 1000), "deg",
                        TEMPERATURE_UNIT[call.units]>>
  /\ (call.fn = "formatWindSpeed" /\ ValidNumber(call.value)) =>
        call.result = ToFixed1(call.value.v) \o <<" ", WIND_UNIT[call.units]>>
  /\ (call.fn = "formatVisibility" /\ ValidNumber(call.value)) =>
        call.result = ToFixed1(call.value.v \div 1000) \o <<" km">>
  /\ (call.fn = "formatSunEvent" /\ Falsy(call.value)) =>
        call.result = Placeholder

(* -------------------------------- C18 ----------------------------------- *)
\* a response arrived with an HTTP status of success
StatusOk(r) == r \in {"ok", "badjson"}

\* C18 as stated: a non-success current-conditions response sets the
\* current-conditions message, whatever became of the forecast request; the
\* forecast message is set only when the current-conditions response
\* succeeded and the forecast response did not; the two messages differ from
\* each other and from the precondition messages.
C18_CurrentFirst ==
  /\ (call.fn = "responseChecks" /\ call.current = "notok") =>
        call.result = MSG_CURRENT_FAILED
  /\ (call.fn = "responseChecks" /\ call.result = MSG_FORECAST_FAILED) =>
        (StatusOk(call.current) /\ call.forecast = "notok")
  /\ MSG_CURRENT_FAILED # MSG_FORECAST_FAILED
  /\ {MSG_CURRENT_FAILED, MSG_FORECAST_FAILED}
       \cap {MSG_MISSING_KEY, MSG_INVALID_CITY} = {}

\* C18 (amended): when both requests got a response, a non-success
\* current-conditions response sets the current-conditions message (also when
\* the forecast response is non-success), and the forecast message is set
\* exactly when the current-conditions response succeeded and the forecast
\* response did not; when either request got no response the message of that
\* failure is set; the two messages differ from each other and from the
\* precondition messages.
C18_MessagePriority ==
  /\ (call.fn = "responseChecks" /\ "neterr" \notin {call.current, call.forecast}) =>
        /\ call.current = "notok" => call.result = MSG_CURRENT_FAILED
        /\ call.result = MSG_FORECAST_FAILED <=>
             (StatusOk(call.current) /\ call.forecast = "notok")
  /\ (call.fn = "responseChecks" /\ "neterr" \in {call.current, call.forecast}) =>
        call.result = MSG_NETWORK
  /\ MSG_CURRENT_FAILED # MSG_FORECAST_FAILED
  /\ {MSG_CURRENT_FAILED, MSG_FORECAST_FAILED}
       \cap {MSG_MISSING_KEY, MSG_INVALID_CITY} = {}

\* both responses were non-success and the current-conditions message was set
C18_Witness ==
  /\ call.fn = "responseChecks"
  /\ call.current = "notok"
  /\ call.forecast = "notok"
  /\ call.result = MSG_CURRENT_FAILED

(* -------------------------------- C19 ----------------------------------- *)
\* a step of one of the three user handlers that call fetchWeather
UserTrigger == handleRefresh \/ handleSubmit \/ AnyUnitChange

\* C19: refresh, submit and unit change act only while loading is false, a
\* unit change always changes the committed units, and while loading is true
\* none of the three is enabled.
C19_GatedOnLoading ==
  /\ [][UserTrigger => ~loading]_vars
  /\ [][\A newUnits \in Units :
          handleUnitChange(newUnits) => (units # newUnits /\ units' = newUnits)]_vars
  /\ [](loading => ~ENABLED UserTrigger)

\* a unit change went through while idle and its cycles are now loading
C19_Witness ==
  /\ apiKey
  /\ units = "imperial"
  /\ loading
  /\ Len(settled) = 1
  /\ Len(cycles) = 3

(* -------------------------------- C20 ----------------------------------- *)
\* C20: loading is true only while some issued cycle has not settled.
C20_LoadingImpliesInflight == loading => inflight # {}

\* loading again, for a cycle issued after an earlier one had settled
C20_Witness ==
  /\ loading
  /\ settled # <<>>
  /\ Cardinality(inflight) = 1

TypeOK ==
  /\ apiKey \in BOOLEAN
  /\ Trim(city) = city /\ city # <<>>
  /\ searchTerm \in Inputs
  /\ units \in Units
  /\ loading \in BOOLEAN
  /\ inflight \subseteq 1..Len(cycles)
  /\ Len(cycles) <= MaxCycles
  /\ phase \in {"created", "mounted", "unmounted"}
  /\ timer = (phase = "mounted")
====
